---- MODULE Spec2Model ----
(***************************************************************************)
(* Expense-report workflow: the ReportDetail page (edit / save / delete /  *)
(* approve / reject), the App page's initial submission, and the row-level *)
(* policies of the expenses and expense_items tables.  One report and two  *)
(* browser sessions acting on it.                                          *)
(*                                                                         *)
(* Async handlers are split at their awaits: every database call is one    *)
(* step, so other sessions interleave between the steps of a save.         *)
(***************************************************************************)
EXTENDS Integers, Sequences, FiniteSets, TLC

\* ---------------------------------------------------------------- bounds
MaxDbId == 3          \* rows ever inserted into expense_items
MaxPaste == 11        \* longest run of digits pasted into an amount input
MaxLookups == 2       \* is_admin calls of one user awaited at a time

\* ---------------------------------------------------------------- constants
MAX_CENTS == 100000000

Users == {"u1", "u2"}
Owner == "u1"
Statuses == {"submitted", "approved", "rejected"}
\* values of an amount input handed to its change handler, as characters
AmountInputs == {<<"$", "2", ".", "5", "0">>}
ClearedInput == <<>>

NoReport == [status |-> "null", user_id |-> "null"]
NoClosure == [items |-> <<>>, report |-> NoReport, admin |-> FALSE, notified |-> "none"]
NoEvent == [user |-> "null", op |-> "none"]
NoRequest == [pc |-> "idle", expenseId |-> 0, retries |-> 0, attempts |-> <<>>,
              role |-> "none", userEmail |-> "null", sent |-> 0, status |-> 0]
NoUpload == [index |-> 0, items |-> <<>>, original |-> "undefined"]
NoAuth == [user |-> "null", isAdmin |-> FALSE, loading |-> TRUE, started |-> FALSE,
           lookups |-> [u \in Users |-> 0]]

VARIABLES
  dbRole,       \* user_roles: TRUE for role = 1
  dbStatus,     \* expenses.status of the report; "none" before insert, "deleted" after delete
  dbTotal,      \* expenses.total_amount, dollars
  dbItems,      \* expense_items rows of the report: set of [id, amount (dollars)]
  nextId,       \* next expense_items id
  userLoading,  \* UserContext.loading, per session
  isAdmin,      \* UserContext.isAdmin, per session
  mounted,      \* ReportDetail is mounted in the session
  loading,      \* ReportDetail.loading
  report,       \* ReportDetail.report
  items,        \* ReportDetail.items (amount in dollars)
  editedItems,  \* ReportDetail.editedItems (amount in cents)
  isEditing,    \* ReportDetail.isEditing
  error,        \* ReportDetail.error
  pc,           \* position of the session's handleSaveChanges; "idle" when isSaving is false
  closure,      \* editedItems / report / isAdmin as captured by the running handleSaveChanges,
                \* and how its notification call ended
  submitPc,     \* position of App.handleSubmit
  submitExps,   \* App.expenses captured by the running handleSubmit
  refused,      \* history: the handler whose guard returned early in the last step, if any
  fn,           \* send-expense-email: the request being served
  upload,       \* ReportDetail.handleEditedFileChange: the upload awaited, per session
  auth          \* UserProvider: the auth state and the is_admin lookups in flight

vars == <<dbRole, dbStatus, dbTotal, dbItems, nextId, userLoading, isAdmin, mounted,
          loading, report, items, editedItems, isEditing, error, pc, closure,
          submitPc, submitExps, refused, fn, upload, auth>>

dbVars == <<dbRole, dbStatus, dbTotal, dbItems, nextId>>
localVars == <<userLoading, isAdmin, mounted, loading, report, items, editedItems,
               isEditing, error, pc, closure>>
submitVars == <<submitPc, submitExps>>
auxVars == <<fn, upload, auth>>

\* ---------------------------------------------------------------- money
\* amount / 100: cents to the dollars value stored in a numeric column
ToDollars(c) == <<c \div 100, c % 100>>
\* Math.round(amount * 100): stored dollars back to cents
ToCents(d) == d[1] * 100 + d[2]

ClampCents(n) == IF n > MAX_CENTS THEN MAX_CENTS ELSE n

DigitChars == <<"0", "1", "2", "3", "4", "5", "6", "7", "8", "9">>
IsDigit(ch) == \E n \in 1..Len(DigitChars) : DigitChars[n] = ch
DigitValue(ch) == (CHOOSE n \in 1..Len(DigitChars) : DigitChars[n] = ch) - 1
DigitChar(n) == DigitChars[n + 1]

\* value.replace(/\D/g, '')
digitsOnly(value) == SelectSeq(value, IsDigit)

\* the number a digit string denotes; once the number read so far is above
\* MAX_CENTS further digits keep it above, and it is left as it is
RECURSIVE ReadDigits(_, _)
ReadDigits(d, acc) ==
  IF d = <<>> THEN acc
  ELSE ReadDigits(Tail(d), IF acc > MAX_CENTS THEN acc ELSE acc * 10 + DigitValue(Head(d)))

\* parseInt(digitsOnly || '0', 10)
parseInt(d) == ReadDigits(IF d = <<>> THEN <<"0">> ELSE d, 0)

\* the limit is not applied
ParseAmount_NoLimit(value) == parseInt(digitsOnly(value))
\* digitsOnly, parseInt, then if (newAmountInCents > 100000000) newAmountInCents = 100000000
ParseAmount(value) == ClampCents(parseInt(digitsOnly(value)))

RECURSIVE NatDigits(_)
NatDigits(n) == IF n < 10 THEN <<DigitChar(n)>>
                ELSE Append(NatDigits(n \div 10), DigitChar(n % 10))

\* en-US grouping: a comma before every group of three digits
RECURSIVE Grouped(_)
Grouped(d) == IF Len(d) <= 3 THEN d
              ELSE Grouped(SubSeq(d, 1, Len(d) - 3)) \o <<",">> \o SubSeq(d, Len(d) - 2, Len(d))

\* the cents are written without their leading zero
formatCurrency_ShortCents(valueInCents) ==
  <<"$">> \o Grouped(NatDigits(valueInCents \div 100)) \o <<".">>
    \o NatDigits(valueInCents % 100)
\* (valueInCents / 100).toLocaleString('en-US', { style: 'currency', currency: 'USD' })
formatCurrency(valueInCents) ==
  <<"$">> \o Grouped(NatDigits(valueInCents \div 100)) \o <<".">>
    \o <<DigitChar((valueInCents % 100) \div 10), DigitChar(valueInCents % 10)>>

\* ---------------------------------------------------------------- helpers
RECURSIVE SumAmounts(_)
SumAmounts(s) == IF s = <<>> THEN 0 ELSE Head(s).amount + SumAmounts(Tail(s))

RECURSIVE SumRows(_)
SumRows(S) == IF S = {} THEN 0
              ELSE LET r == CHOOSE x \in S : TRUE
                   IN ToCents(r.amount) + SumRows(S \ {r})

RECURSIVE RowsInOrder(_)
RowsInOrder(S) == IF S = {} THEN <<>>
                  ELSE LET r == CHOOSE x \in S : \A y \in S : x.id <= y.id
                       IN <<r>> \o RowsInOrder(S \ {r})

Refusal(u, op) == [user |-> u, op |-> op]

\* ---------------------------------------------------------------- item lists
IsToDelete(it) == it.isDeleted /\ it.db_id # 0
\* the deleted flag is not tested
IsToUpdate_IgnoresDeleted(it) == ~it.isNew /\ it.db_id # 0
IsToUpdate(it) == ~it.isNew /\ ~it.isDeleted /\ it.db_id # 0
IsToInsert(it) == it.isNew /\ ~it.isDeleted
IsFinal(it) == ~it.isDeleted
IsNewItem(it) == it.isNew

itemsToDelete(l) == SelectSeq(l, IsToDelete)
itemsToUpdate(l) == SelectSeq(l, IsToUpdate)
itemsToInsert(l) == SelectSeq(l, IsToInsert)
\* the deleted flag is not looked at
finalItems_All(l) == l
finalItems(l) == SelectSeq(l, IsFinal)

DbIds(l) == {l[i].db_id : i \in 1..Len(l)}

\* categories[0] and the sentinel category
FirstCategory == "Airfare"
Other == "Other"
\* a description: SQL null, JavaScript undefined, the empty string, or a text
NullValue == "null"
Undefined == "undefined"
Descriptions == {NullValue, Undefined, "", "taxi"}

\* item.description || undefined
DescriptionOrUndefined(d) == IF d \in {NullValue, Undefined, ""} THEN Undefined ELSE d

\* formattedItems of fetchReportDetails: the rows as fetched, amount in dollars
FormatItems(rows) ==
  [i \in 1..Len(rows) |->
     [db_id |-> rows[i].id, amount |-> rows[i].amount, category |-> rows[i].category,
      description |-> DescriptionOrUndefined(rows[i].description),
      receipt_url |-> rows[i].receipt_url]]

\* items.map(item => ({...item, amount: Math.round(item.amount * 100)}))
EditCopy(its) == [i \in 1..Len(its) |->
                    [db_id |-> its[i].db_id, amount |-> ToCents(its[i].amount),
                     category |-> its[i].category, description |-> its[i].description,
                     receipt_url |-> its[i].receipt_url, receipt |-> Undefined,
                     isNew |-> FALSE, isDeleted |-> FALSE]]

\* the description is written whatever the category
PayloadDescription_AnyCategory(item) == item.description
\* description: item.category === 'Other' ? item.description : null
PayloadDescription(item) == IF item.category = Other THEN item.description ELSE NullValue

\* the column a payload value leaves in the row: a key that is undefined is not
\* sent, and the row gets null
StoredValue(v) == IF v = Undefined THEN NullValue ELSE v

\* the row that the updates / inserts / expenseItems payload of item writes under id
PayloadRow(item, id) ==
  [id |-> id, amount |-> ToDollars(item.amount), category |-> item.category,
   description |-> StoredValue(PayloadDescription(item)),
   receipt_url |-> StoredValue(item.receipt_url)]

RemoveAt(l, i) == [j \in 1..(Len(l) - 1) |-> IF j < i THEN l[j] ELSE l[j + 1]]

\* ---------------------------------------------------------------- permissions
\* the status test on the owner's branch left out
canEdit_OwnerAnyStatus(s) == ~userLoading[s] /\ (isAdmin[s] \/ report[s].user_id = s)
\* the admin's branch left out
canEdit_OwnerOnly(s) == ~userLoading[s] /\ report[s].user_id = s /\ report[s].status \in {"submitted", "rejected"}
canEdit(s) == ~userLoading[s] /\ (isAdmin[s] \/ (report[s].user_id = s /\ report[s].status \in {"submitted", "rejected"}))
\* canEditOrDelete: an admin may delete as well
canDelete_AdminToo(s) == ~userLoading[s] /\ (isAdmin[s] \/ (report[s].user_id = s /\ report[s].status \in {"submitted", "rejected"}))
canDelete(s) == ~userLoading[s] /\ ~isAdmin[s] /\ report[s].user_id = s /\ report[s].status \in {"submitted", "rejected"}
\* the status test left out
canApproveReject_AnyStatus(s) == ~userLoading[s] /\ isAdmin[s]
\* the role test left out
canApproveReject_AnyRole(s) == ~userLoading[s] /\ report[s].status = "submitted"
canApproveReject(s) == ~userLoading[s] /\ isAdmin[s] /\ report[s].status = "submitted"

\* the page shows its controls: not the "Loading report details..." screen
Rendered(s) == mounted[s] /\ ~userLoading[s] /\ ~loading[s]
\* the view-mode summary with its action buttons
ViewMode(s) == Rendered(s) /\ error[s] = "none" /\ report[s] # NoReport /\ ~isEditing[s]
\* the edit-mode form
EditMode(s) == Rendered(s) /\ report[s] # NoReport /\ isEditing[s]

\* ---------------------------------------------------------------- row-level security
ReportExists == dbStatus \in Statuses
\* SELECT / UPDATE / DELETE on expenses and expense_items: the owner, or is_admin()
RlsCanAccess(s) == ReportExists /\ (s = Owner \/ dbRole[s])
\* INSERT on expense_items: only "Users can insert items for their own expenses"
RlsCanInsertItem(s) == ReportExists /\ s = Owner

\* ---------------------------------------------------------------- Init
Init ==
  /\ dbRole \in {[u \in Users |-> u = a] : a \in Users}
  /\ dbStatus = "none"
  /\ dbTotal = ToDollars(0)
  /\ dbItems = {}
  /\ nextId = 1
  /\ userLoading = [u \in Users |-> TRUE]
  /\ isAdmin = [u \in Users |-> FALSE]
  /\ mounted = [u \in Users |-> FALSE]
  /\ loading = [u \in Users |-> TRUE]
  /\ report = [u \in Users |-> NoReport]
  /\ items = [u \in Users |-> <<>>]
  /\ editedItems = [u \in Users |-> <<>>]
  /\ isEditing = [u \in Users |-> FALSE]
  /\ error = [u \in Users |-> "none"]
  /\ pc = [u \in Users |-> "idle"]
  /\ closure = [u \in Users |-> NoClosure]
  /\ submitPc = "form"
  /\ submitExps = <<>>
  /\ refused = NoEvent
  /\ fn = NoRequest
  /\ upload = [u \in Users |-> NoUpload]
  /\ auth = NoAuth

\* ---------------------------------------------------------------- UserProvider
\* fetchUserAndAdminStatus completes: isAdmin from the is_admin rpc
AuthResolved(s) ==
  /\ userLoading[s]
  /\ isAdmin' = [isAdmin EXCEPT ![s] = dbRole[s]]
  /\ userLoading' = [userLoading EXCEPT ![s] = FALSE]
  /\ refused' = NoEvent
  /\ UNCHANGED <<dbVars, mounted, loading, report, items, editedItems, isEditing, error, pc, closure, submitVars, auxVars>>

\* ---------------------------------------------------------------- ReportDetail: mount and fetch
\* the page is opened (or reopened): fresh component state, fetchReportDetails starts
Mount(s) ==
  /\ ~userLoading[s]
  /\ dbStatus # "none"
  /\ pc[s] = "idle"
  /\ s = Owner => submitPc = "form"
  /\ mounted[s] => ~loading[s]
  /\ mounted' = [mounted EXCEPT ![s] = TRUE]
  /\ loading' = [loading EXCEPT ![s] = TRUE]
  /\ report' = [report EXCEPT ![s] = NoReport]
  /\ items' = [items EXCEPT ![s] = <<>>]
  /\ editedItems' = [editedItems EXCEPT ![s] = <<>>]
  /\ isEditing' = [isEditing EXCEPT ![s] = FALSE]
  /\ error' = [error EXCEPT ![s] = "none"]
  /\ refused' = NoEvent
  /\ UNCHANGED <<dbVars, userLoading, isAdmin, pc, closure, submitVars, auxVars>>

\* fetchReportDetails returns; when it was awaited by handleSaveChanges the save ends here
FetchDone(s) ==
  /\ mounted[s] /\ loading[s] /\ ~userLoading[s]
  /\ \E ok \in BOOLEAN :
       IF ok /\ RlsCanAccess(s)
       THEN /\ report' = [report EXCEPT ![s] = [status |-> dbStatus, user_id |-> Owner]]
            /\ items' = [items EXCEPT ![s] = FormatItems(RowsInOrder(dbItems))]
            /\ editedItems' = [editedItems EXCEPT ![s] = EditCopy(FormatItems(RowsInOrder(dbItems)))]
            /\ error' = error
            /\ refused' = NoEvent
       ELSE /\ report' = [report EXCEPT ![s] = NoReport]
            /\ items' = [items EXCEPT ![s] = <<>>]
            /\ editedItems' = [editedItems EXCEPT ![s] = <<>>]
            /\ error' = [error EXCEPT ![s] = "fetch"]
            /\ refused' = NoEvent
  /\ loading' = [loading EXCEPT ![s] = FALSE]
  /\ isEditing' = [isEditing EXCEPT ![s] = IF pc[s] = "fetch" THEN FALSE ELSE @]
  /\ pc' = [pc EXCEPT ![s] = "idle"]
  /\ closure' = [closure EXCEPT ![s] = NoClosure]
  /\ UNCHANGED <<dbVars, userLoading, isAdmin, mounted, submitVars, auxVars>>

\* ---------------------------------------------------------------- ReportDetail: edit mode
\* the edit form's inputs are used between saves, not while one is in flight
\* Edit button (view mode, shown when canEdit) or Cancel button (edit mode, disabled while saving)
handleEditToggle(s) ==
  /\ Rendered(s) /\ report[s] # NoReport
  /\ \/ ViewMode(s) /\ canEdit(s)
     \/ isEditing[s] /\ pc[s] = "idle"
  /\ editedItems' = [editedItems EXCEPT ![s] = IF ~isEditing[s] THEN EditCopy(items[s]) ELSE @]
  /\ isEditing' = [isEditing EXCEPT ![s] = ~isEditing[s]]
  /\ error' = [error EXCEPT ![s] = "none"]
  /\ refused' = NoEvent
  /\ UNCHANGED <<dbVars, userLoading, isAdmin, mounted, loading, report, items, pc, closure, submitVars, auxVars>>

\* if (!canEdit && !isEditing) return;
handleEditToggleRefused(s) ==
  /\ Rendered(s) /\ ~isEditing[s]
  /\ ~canEdit(s) /\ ~isEditing[s]
  /\ refused' = Refusal(s, "editToggle")
  /\ UNCHANGED <<dbVars, localVars, submitVars, auxVars>>

\* [...editedItems, { id, date, amount: 0, category, description, isNew: true }]
AddedList(l) ==
  Append(l, [db_id |-> 0, amount |-> 0, category |-> FirstCategory, description |-> "",
             receipt_url |-> Undefined, receipt |-> Undefined,
             isNew |-> TRUE, isDeleted |-> FALSE])

addEditedExpense(s) ==
  /\ EditMode(s) /\ pc[s] = "idle"
  /\ nextId + Len(SelectSeq(editedItems[s], IsNewItem)) <= MaxDbId
  /\ editedItems' = [editedItems EXCEPT ![s] = AddedList(@)]
  /\ refused' = NoEvent
  /\ UNCHANGED <<dbVars, userLoading, isAdmin, mounted, loading, report, items, isEditing, error, pc, closure, submitVars, auxVars>>

\* the amount input of a shown (non-deleted) item; v is the input's new value
handleEditedAmountChange(s, i, v) ==
  /\ EditMode(s) /\ pc[s] = "idle"
  /\ i \in 1..Len(editedItems[s]) /\ ~editedItems[s][i].isDeleted
  /\ editedItems' = [editedItems EXCEPT ![s][i].amount = ParseAmount(v)]
  /\ refused' = NoEvent
  /\ UNCHANGED <<dbVars, userLoading, isAdmin, mounted, loading, report, items, isEditing, error, pc, closure, submitVars, auxVars>>

\* updateEditedExpense(id, { category }): { ...item, ...updates }, the description
\* cleared when the new category is not 'Other'
CategoryChanged(item, c) ==
  [item EXCEPT !.category = c, !.description = IF c # Other THEN "" ELSE @]

\* the category select of a shown item
updateEditedCategory(s, i, c) ==
  /\ EditMode(s) /\ pc[s] = "idle"
  /\ i \in 1..Len(editedItems[s]) /\ ~editedItems[s][i].isDeleted
  /\ editedItems' = [editedItems EXCEPT ![s][i] = CategoryChanged(@, c)]
  /\ refused' = NoEvent
  /\ UNCHANGED <<dbVars, userLoading, isAdmin, mounted, loading, report, items, isEditing, error, pc, closure, submitVars, auxVars>>

\* the description input, rendered for an item whose category is 'Other'
updateEditedDescription(s, i, d) ==
  /\ EditMode(s) /\ pc[s] = "idle"
  /\ i \in 1..Len(editedItems[s]) /\ ~editedItems[s][i].isDeleted
  /\ editedItems[s][i].category = Other
  /\ editedItems' = [editedItems EXCEPT ![s][i].description = d]
  /\ refused' = NoEvent
  /\ UNCHANGED <<dbVars, userLoading, isAdmin, mounted, loading, report, items, isEditing, error, pc, closure, submitVars, auxVars>>

\* the same input used while handleSaveChanges is awaiting a database call: the
\* form's inputs stay enabled during a save, only the two buttons are disabled
handleEditedAmountChangeSaving(s, i, v) ==
  /\ EditMode(s) /\ pc[s] \in {"del", "upd", "ins", "rep"}
  /\ i \in 1..Len(editedItems[s]) /\ ~editedItems[s][i].isDeleted
  /\ editedItems' = [editedItems EXCEPT ![s][i].amount = ParseAmount(v)]
  /\ refused' = NoEvent
  /\ UNCHANGED <<dbVars, userLoading, isAdmin, mounted, loading, report, items, isEditing, error, pc, closure, submitVars, auxVars>>

\* a new item is flagged deleted and kept, like a stored one
RemovedList_KeepsNew(l, i) == [l EXCEPT ![i].isDeleted = TRUE]
\* item.isNew ? null : { ...item, isDeleted: true }, then the nulls filtered out
RemovedList(l, i) == IF l[i].isNew THEN RemoveAt(l, i) ELSE [l EXCEPT ![i].isDeleted = TRUE]

removeEditedExpense(s, i) ==
  /\ EditMode(s) /\ pc[s] = "idle"
  /\ i \in 1..Len(editedItems[s]) /\ ~editedItems[s][i].isDeleted
  /\ editedItems' = [editedItems EXCEPT ![s] = RemovedList(@, i)]
  /\ refused' = NoEvent
  /\ UNCHANGED <<dbVars, userLoading, isAdmin, mounted, loading, report, items, isEditing, error, pc, closure, submitVars, auxVars>>

\* ---------------------------------------------------------------- ReportDetail: handleSaveChanges
AfterUpdates(l) == IF itemsToInsert(l) # <<>> THEN "ins" ELSE "rep"
\* the updates are passed over
AfterDeletes_SkipsUpdates(l) == AfterUpdates(l)
AfterDeletes(l) == IF itemsToUpdate(l) # <<>> THEN "upd" ELSE AfterUpdates(l)
FirstStep(l) == IF itemsToDelete(l) # <<>> THEN "del" ELSE AfterDeletes(l)

\* every save resubmits, the admin's as well
newStatus_AlwaysSubmitted(c) == "submitted"
\* every save keeps the loaded status, the owner's as well
newStatus_KeepsLoaded(c) == c.report.status
\* isAdmin ? report.status : 'submitted'
newStatus(c) == IF c.admin THEN c.report.status ELSE "submitted"
\* the deleted items are added in too
newTotalAmountInCents_WithDeleted(c) == SumAmounts(c.items)
newTotalAmountInCents(c) == SumAmounts(finalItems(c.items))

\* the button stays enabled while a save is in flight
SaveStart_Reentrant(s) ==
  /\ EditMode(s)
  /\ Len(finalItems(editedItems[s])) # 0
  /\ canEdit(s)
  /\ error' = [error EXCEPT ![s] = "none"]
  /\ closure' = [closure EXCEPT ![s] = [items |-> editedItems[s], report |-> report[s],
                                          admin |-> isAdmin[s], notified |-> "none"]]
  /\ pc' = [pc EXCEPT ![s] = FirstStep(editedItems[s])]
  /\ refused' = NoEvent
  /\ UNCHANGED <<dbVars, userLoading, isAdmin, mounted, loading, report, items, editedItems, isEditing, submitVars, auxVars>>

\* the button stays enabled when no item is left
SaveStart_NoEmptyCheck(s) ==
  /\ EditMode(s)
  /\ pc[s] = "idle"
  /\ canEdit(s)
  /\ error' = [error EXCEPT ![s] = "none"]
  /\ closure' = [closure EXCEPT ![s] = [items |-> editedItems[s], report |-> report[s],
                                          admin |-> isAdmin[s], notified |-> "none"]]
  /\ pc' = [pc EXCEPT ![s] = FirstStep(editedItems[s])]
  /\ refused' = NoEvent
  /\ UNCHANGED <<dbVars, userLoading, isAdmin, mounted, loading, report, items, editedItems, isEditing, submitVars, auxVars>>

\* Save Changes button: disabled while saving or when no item is left; then the handler's guard
SaveStart(s) ==
  /\ EditMode(s)
  /\ pc[s] = "idle"
  /\ Len(finalItems(editedItems[s])) # 0
  /\ canEdit(s)
  /\ error' = [error EXCEPT ![s] = "none"]
  /\ closure' = [closure EXCEPT ![s] = [items |-> editedItems[s], report |-> report[s],
                                          admin |-> isAdmin[s], notified |-> "none"]]
  /\ pc' = [pc EXCEPT ![s] = FirstStep(editedItems[s])]
  /\ refused' = NoEvent
  /\ UNCHANGED <<dbVars, userLoading, isAdmin, mounted, loading, report, items, editedItems, isEditing, submitVars, auxVars>>

\* the Save Changes button pressed while disabled={isSaving || no item is left}: no handler runs
SaveDisabled(s) ==
  /\ EditMode(s)
  /\ pc[s] # "idle" \/ Len(finalItems(editedItems[s])) = 0
  /\ refused' = Refusal(s, "saveDisabled")
  /\ UNCHANGED <<dbVars, localVars, submitVars, auxVars>>

\* the early return reports an error
SaveRefused_SetsError(s) ==
  /\ Rendered(s) /\ ~isEditing[s]
  /\ report[s] = NoReport \/ ~canEdit(s)
  /\ error' = [error EXCEPT ![s] = "save"]
  /\ refused' = Refusal(s, "saveStart")
  /\ UNCHANGED <<dbVars, userLoading, isAdmin, mounted, loading, report, items, editedItems, isEditing, pc, closure, submitVars, auxVars>>

\* if (!user || !report || !canEdit) return;
SaveRefused(s) ==
  /\ Rendered(s) /\ ~isEditing[s]
  /\ report[s] = NoReport \/ ~canEdit(s)
  /\ refused' = Refusal(s, "saveStart")
  /\ UNCHANGED <<dbVars, localVars, submitVars, auxVars>>

\* no finally: the saving flag is never reset after a failure
SaveFailed_KeepsSaving(s, op) ==
  /\ error' = [error EXCEPT ![s] = "save"]
  /\ pc' = [pc EXCEPT ![s] = "failed"]
  /\ closure' = [closure EXCEPT ![s] = NoClosure]
  /\ refused' = NoEvent

\* the catch sets no message
SaveFailed_Silent(s, op) ==
  /\ error' = error
  /\ pc' = [pc EXCEPT ![s] = "idle"]
  /\ closure' = [closure EXCEPT ![s] = NoClosure]
  /\ refused' = NoEvent

\* catch: setError('Failed to save changes: ...'); finally: setIsSaving(false)
SaveFailed(s, op) ==
  /\ error' = [error EXCEPT ![s] = "save"]
  /\ pc' = [pc EXCEPT ![s] = "idle"]
  /\ closure' = [closure EXCEPT ![s] = NoClosure]
  /\ refused' = NoEvent

\* setError(null) at the start of fetchReportDetails
ClearedError(e) == "none"

\* await fetchReportDetails(): setLoading(true); setError(null)
SaveFetchStart(s) ==
  /\ pc' = [pc EXCEPT ![s] = "fetch"]
  /\ loading' = [loading EXCEPT ![s] = TRUE]
  /\ error' = [error EXCEPT ![s] = ClearedError(@)]

\* 1. supabase.from('expense_items').delete().in('id', itemsToDelete)
SaveDelete(s) ==
  /\ pc[s] = "del"
  /\ \E ok \in BOOLEAN :
       IF ok
       THEN /\ dbItems' = IF RlsCanAccess(s)
                          THEN {r \in dbItems : r.id \notin DbIds(itemsToDelete(closure[s].items))}
                          ELSE dbItems
            /\ pc' = [pc EXCEPT ![s] = AfterDeletes(closure[s].items)]
            /\ refused' = NoEvent
            /\ UNCHANGED <<error, closure>>
       ELSE /\ SaveFailed(s, "saveDelete")
            /\ UNCHANGED dbItems
  /\ UNCHANGED <<dbRole, dbStatus, dbTotal, nextId, userLoading, isAdmin, mounted, loading, report, items, editedItems, isEditing, submitVars, auxVars>>

\* the rows an upsert of the updates payload leaves in the table
Upserted(rows, ups) ==
  {IF \E i \in 1..Len(ups) : ups[i].db_id = r.id
   THEN PayloadRow(ups[CHOOSE i \in 1..Len(ups) : ups[i].db_id = r.id], r.id)
   ELSE r : r \in rows}

\* 2. supabase.from('expense_items').upsert(updates, { onConflict: 'id' })
\* a payload row whose id is no longer in the table would be inserted, which no policy allows
SaveUpdate(s) ==
  /\ pc[s] = "upd"
  /\ \E ok \in BOOLEAN :
       IF /\ ok
          /\ RlsCanAccess(s)
          /\ DbIds(itemsToUpdate(closure[s].items)) \subseteq {r.id : r \in dbItems}
       THEN /\ dbItems' = Upserted(dbItems, itemsToUpdate(closure[s].items))
            /\ pc' = [pc EXCEPT ![s] = AfterUpdates(closure[s].items)]
            /\ refused' = NoEvent
            /\ UNCHANGED <<error, closure>>
       ELSE /\ SaveFailed(s, "saveUpdate")
            /\ UNCHANGED dbItems
  /\ UNCHANGED <<dbRole, dbStatus, dbTotal, nextId, userLoading, isAdmin, mounted, loading, report, items, editedItems, isEditing, submitVars, auxVars>>

\* rows created by an insert of the list l, ids from n on
InsertedRows(l, n) == {PayloadRow(l[i], n + i - 1) : i \in 1..Len(l)}

\* 3. supabase.from('expense_items').insert(inserts)
SaveInsert(s) ==
  /\ pc[s] = "ins"
  /\ \E ok \in BOOLEAN :
       IF ok /\ RlsCanInsertItem(s)
       THEN /\ nextId + Len(itemsToInsert(closure[s].items)) - 1 <= MaxDbId
            /\ dbItems' = dbItems \cup InsertedRows(itemsToInsert(closure[s].items), nextId)
            /\ nextId' = nextId + Len(itemsToInsert(closure[s].items))
            /\ pc' = [pc EXCEPT ![s] = "rep"]
            /\ refused' = NoEvent
            /\ UNCHANGED <<error, closure>>
       ELSE /\ SaveFailed(s, "saveInsert")
            /\ UNCHANGED <<dbItems, nextId>>
  /\ UNCHANGED <<dbRole, dbStatus, dbTotal, userLoading, isAdmin, mounted, loading, report, items, editedItems, isEditing, submitVars, auxVars>>

\* ---------------------------------------------------------------- pages/ReportDetail.tsx: handleSaveChanges
\* the variant of the save kept in src/pages: "Updates (delete and re-insert approach)"
\* supabase.from('expense_items').delete().in('id', existingDbIdsToKeep)
SaveClearExisting(s) ==
  /\ pc[s] = "upd"
  /\ \E ok \in BOOLEAN :
       IF ok
       THEN /\ dbItems' = IF RlsCanAccess(s)
                          THEN {r \in dbItems : r.id \notin DbIds(itemsToUpdate(closure[s].items))}
                          ELSE dbItems
            /\ pc' = [pc EXCEPT ![s] = "ins"]
            /\ refused' = NoEvent
            /\ UNCHANGED <<error, closure>>
       ELSE /\ SaveFailed(s, "saveClearExisting")
            /\ UNCHANGED dbItems
  /\ UNCHANGED <<dbRole, dbStatus, dbTotal, nextId, userLoading, isAdmin, mounted, loading, report, items, editedItems, isEditing, submitVars, auxVars>>

\* finalItemsToInsert = [...itemsToInsert, ...itemsToUpdate]
finalItemsToInsert(l) == itemsToInsert(l) \o itemsToUpdate(l)

\* supabase.from('expense_items').insert(finalItemsToInsert): every row gets a new id
SaveReinsert(s) ==
  /\ pc[s] = "ins"
  /\ \E ok \in BOOLEAN :
       IF ok /\ RlsCanInsertItem(s)
       THEN /\ nextId + Len(finalItemsToInsert(closure[s].items)) - 1 <= MaxDbId
            /\ dbItems' = dbItems \cup InsertedRows(finalItemsToInsert(closure[s].items), nextId)
            /\ nextId' = nextId + Len(finalItemsToInsert(closure[s].items))
            /\ pc' = [pc EXCEPT ![s] = "rep"]
            /\ refused' = NoEvent
            /\ UNCHANGED <<error, closure>>
       ELSE /\ SaveFailed(s, "saveReinsert")
            /\ UNCHANGED <<dbItems, nextId>>
  /\ UNCHANGED <<dbRole, dbStatus, dbTotal, userLoading, isAdmin, mounted, loading, report, items, editedItems, isEditing, submitVars, auxVars>>

\* the admin test is left out
notifies_AdminToo(s, c) == c.report.user_id = s /\ newStatus(c) = "submitted"
\* if (!isAdmin && report.user_id === user.id && newStatus === 'submitted')
notifies(s, c) == ~c.admin /\ c.report.user_id = s /\ newStatus(c) = "submitted"

\* 4. supabase.from('expenses').update({ total_amount, status }).eq('id', report.id).select().single()
\* then step 5 when a non-admin owner resubmitted, else straight on to fetchReportDetails
SaveReport(s) ==
  /\ pc[s] = "rep"
  /\ \E ok \in BOOLEAN :
       IF ok /\ RlsCanAccess(s)
       THEN /\ dbTotal' = ToDollars(newTotalAmountInCents(closure[s]))
            /\ dbStatus' = newStatus(closure[s])
            /\ IF notifies(s, closure[s])
               THEN /\ pc' = [pc EXCEPT ![s] = "notify"]
                    /\ UNCHANGED <<loading, error>>
               ELSE SaveFetchStart(s)
            /\ refused' = NoEvent
            /\ UNCHANGED closure
       ELSE /\ SaveFailed(s, "saveReport")
            /\ UNCHANGED <<dbTotal, dbStatus, loading>>
  /\ UNCHANGED <<dbRole, dbItems, nextId, userLoading, isAdmin, mounted, report, items, editedItems, isEditing, submitVars, auxVars>>

NotifyOutcomes == {"ok", "notOk", "networkError", "noSession"}

\* setError(prev => prev ? `${prev}\nWarning: ...` : 'Report saved, but ...') on a
\* non-OK response or a network error; a missing session is only logged
NotifyWarning(e, out) ==
  IF out \in {"notOk", "networkError"}
  THEN IF e = "none" THEN "warning" ELSE e
  ELSE e

\* a failed notification is thrown to the catch of the save
SaveNotify_FailsSave(s) ==
  /\ pc[s] = "notify"
  /\ \E out \in NotifyOutcomes :
       IF out = "ok"
       THEN /\ closure' = [closure EXCEPT ![s].notified = out]
            /\ pc' = [pc EXCEPT ![s] = "fetch"]
            /\ loading' = [loading EXCEPT ![s] = TRUE]
            /\ error' = [error EXCEPT ![s] = ClearedError(NotifyWarning(@, out))]
            /\ refused' = NoEvent
       ELSE SaveFailed(s, "saveNotify") /\ UNCHANGED loading
  /\ UNCHANGED <<dbVars, userLoading, isAdmin, mounted, report, items, editedItems, isEditing, submitVars, auxVars>>

\* 5. getSession and the send-expense-email call, then await fetchReportDetails():
\* the warning of a failed call and the setLoading(true); setError(null) of the
\* refresh are set in the same synchronous run, so the state after it has no warning
SaveNotify(s) ==
  /\ pc[s] = "notify"
  /\ \E out \in NotifyOutcomes :
       /\ closure' = [closure EXCEPT ![s].notified = out]
       /\ error' = [error EXCEPT ![s] = ClearedError(NotifyWarning(@, out))]
  /\ pc' = [pc EXCEPT ![s] = "fetch"]
  /\ loading' = [loading EXCEPT ![s] = TRUE]
  /\ refused' = NoEvent
  /\ UNCHANGED <<dbVars, userLoading, isAdmin, mounted, report, items, editedItems, isEditing, submitVars, auxVars>>

\* ---------------------------------------------------------------- ReportDetail: approve / reject
\* supabase.from('expenses').update({ status: newStatus }).eq('id', report.id).select().single()
handleUpdateStatus(s, st) ==
  /\ ViewMode(s)
  /\ canApproveReject(s)
  /\ \E ok \in BOOLEAN :
       IF ok /\ RlsCanAccess(s)
       THEN /\ dbStatus' = st
            /\ report' = [report EXCEPT ![s] = [status |-> st, user_id |-> Owner]]
            /\ error' = error
            /\ refused' = NoEvent
       ELSE /\ error' = [error EXCEPT ![s] = "status"]
            /\ refused' = NoEvent
            /\ UNCHANGED <<dbStatus, report>>
  /\ UNCHANGED <<dbRole, dbTotal, dbItems, nextId, userLoading, isAdmin, mounted, loading, items, editedItems, isEditing, pc, closure, submitVars, auxVars>>

\* if (!canApproveReject || !report) return;
handleUpdateStatusRefused(s) ==
  /\ Rendered(s) /\ ~isEditing[s]
  /\ ~canApproveReject(s) \/ report[s] = NoReport
  /\ refused' = Refusal(s, "updateStatus")
  /\ UNCHANGED <<dbVars, localVars, submitVars, auxVars>>

\* ---------------------------------------------------------------- ReportDetail: delete
\* supabase.from('expenses').delete().eq('id', report.id); the items go by ON DELETE CASCADE;
\* navigate('/reports') unmounts the page
handleDeleteReport(s) ==
  /\ ViewMode(s)
  /\ canDelete(s)
  /\ \E ok \in BOOLEAN :
       IF ok
       THEN /\ dbStatus' = IF RlsCanAccess(s) THEN "deleted" ELSE dbStatus
            /\ dbItems' = IF RlsCanAccess(s) THEN {} ELSE dbItems
            /\ mounted' = [mounted EXCEPT ![s] = FALSE]
            /\ loading' = [loading EXCEPT ![s] = TRUE]
            /\ report' = [report EXCEPT ![s] = NoReport]
            /\ items' = [items EXCEPT ![s] = <<>>]
            /\ editedItems' = [editedItems EXCEPT ![s] = <<>>]
            /\ error' = error
            /\ refused' = NoEvent
       ELSE /\ error' = [error EXCEPT ![s] = "delete"]
            /\ refused' = NoEvent
            /\ UNCHANGED <<dbStatus, dbItems, mounted, loading, report, items, editedItems>>
  /\ UNCHANGED <<dbRole, dbTotal, nextId, userLoading, isAdmin, isEditing, pc, closure, submitVars, auxVars>>

\* if (!user || !report || !canDelete) return;
handleDeleteReportRefused(s) ==
  /\ Rendered(s) /\ ~isEditing[s]
  /\ report[s] = NoReport \/ ~canDelete(s)
  /\ refused' = Refusal(s, "deleteReport")
  /\ UNCHANGED <<dbVars, localVars, submitVars, auxVars>>

\* ---------------------------------------------------------------- App: handleSubmit
SubmitAmounts == {ParseAmount(v) : v \in AmountInputs}
\* the expenses on the form when Submit Report is pressed (Review needs at least one)
SubmitLists ==
  UNION {[1..n -> [amount : SubmitAmounts, category : {FirstCategory}, description : {""},
                   receipt_url : {Undefined}]] : n \in 1..(MaxDbId - 1)}

\* getSession, then supabase.from('expenses').insert({ user_id, total_amount, status: 'submitted' })
SubmitReport(exps) ==
  /\ ~userLoading[Owner]
  /\ submitPc = "form"
  /\ dbStatus = "none"
  /\ \E ok \in BOOLEAN :
       IF ok
       THEN /\ dbStatus' = "submitted"
            /\ dbTotal' = ToDollars(SumAmounts(exps))
            /\ submitPc' = "items"
            /\ submitExps' = exps
            /\ refused' = NoEvent
       ELSE /\ refused' = NoEvent
            /\ UNCHANGED <<dbStatus, dbTotal, submitVars>>
  /\ UNCHANGED <<dbRole, dbItems, nextId, localVars, auxVars>>

\* supabase.from('expense_items').insert(expenseItems), then the notification and setExpenses([])
SubmitItems ==
  /\ submitPc = "items"
  /\ \E ok \in BOOLEAN :
       IF ok /\ RlsCanInsertItem(Owner)
       THEN /\ nextId + Len(submitExps) - 1 <= MaxDbId
            /\ dbItems' = dbItems \cup InsertedRows(submitExps, nextId)
            /\ nextId' = nextId + Len(submitExps)
            /\ submitPc' = "form"
            /\ refused' = NoEvent
       ELSE /\ submitPc' = "form"
            /\ refused' = NoEvent
            /\ UNCHANGED <<dbItems, nextId>>
  /\ submitExps' = <<>>
  /\ UNCHANGED <<dbRole, dbStatus, dbTotal, localVars, auxVars>>

\* ---------------------------------------------------------------- specifications
\* what every session does on the ReportDetail page
PageStep(s) ==
  \/ AuthResolved(s)
  \/ Mount(s)
  \/ FetchDone(s)
  \/ handleEditToggle(s)
  \/ handleEditToggleRefused(s)
  \/ \E i \in 1..MaxDbId, v \in AmountInputs : handleEditedAmountChange(s, i, v)
  \/ \E i \in 1..MaxDbId : removeEditedExpense(s, i)
  \/ SaveStart(s)
  \/ SaveDisabled(s)
  \/ SaveRefused(s)
  \/ SaveDelete(s)
  \/ SaveUpdate(s)
  \/ SaveReport(s)
  \/ SaveNotify(s)
  \/ handleUpdateStatusRefused(s)
  \/ handleDeleteReport(s)
  \/ handleDeleteReportRefused(s)

SubmitStep ==
  \/ \E exps \in SubmitLists : SubmitReport(exps)
  \/ SubmitItems

\* the owner, who is not an admin, alone on the report: submission, then edit
\* sessions that add, re-price and remove items
InitSingle == Init /\ ~dbRole[Owner]

NextSingle ==
  \/ PageStep(Owner)
  \/ addEditedExpense(Owner)
  \/ SaveInsert(Owner)
  \/ SubmitStep

SpecSingle == InitSingle /\ [][NextSingle]_vars

\* every call a save awaits returns: each step of a save in flight is taken
SaveCallsReturn ==
  /\ WF_vars(SaveDelete(Owner))
  /\ WF_vars(SaveUpdate(Owner))
  /\ WF_vars(SaveInsert(Owner))
  /\ WF_vars(SaveReport(Owner))
  /\ WF_vars(SaveNotify(Owner))
  /\ WF_vars(FetchDone(Owner))

SpecSingleLive == SpecSingle /\ SaveCallsReturn

\* the non-admin owner alone, re-pricing and removing items, also while a save
\* of the session is awaiting a database call
NextTyping ==
  \/ PageStep(Owner)
  \/ \E i \in 1..MaxDbId, v \in AmountInputs \cup {ClearedInput} : handleEditedAmountChangeSaving(Owner, i, v)
  \/ SubmitStep

SpecTyping == InitSingle /\ [][NextTyping]_vars

\* the expenses of the form with their category and description: the description
\* input is rendered, and the description kept, only under 'Other'
DescribedExpenses ==
  [amount : SubmitAmounts, category : {FirstCategory}, description : {""}, receipt_url : {Undefined}]
    \cup [amount : SubmitAmounts, category : {Other}, description : {"", "taxi"},
          receipt_url : {Undefined}]
DescribedLists == [1..1 -> DescribedExpenses]

\* the non-admin owner alone: submission, then edit sessions that add items and
\* change categories and descriptions
NextFields ==
  \/ AuthResolved(Owner)
  \/ Mount(Owner)
  \/ FetchDone(Owner)
  \/ handleEditToggle(Owner)
  \/ addEditedExpense(Owner)
  \/ \E i \in 1..MaxDbId, c \in {FirstCategory, Other} : updateEditedCategory(Owner, i, c)
  \/ \E i \in 1..MaxDbId, d \in {"taxi"} : updateEditedDescription(Owner, i, d)
  \/ SaveStart(Owner)
  \/ SaveUpdate(Owner)
  \/ SaveInsert(Owner)
  \/ SaveReport(Owner)
  \/ SaveNotify(Owner)
  \/ \E exps \in DescribedLists : SubmitReport(exps)
  \/ SubmitItems

SpecFields == InitSingle /\ [][NextFields]_vars

\* the non-admin owner alone, on the page of src/pages/ReportDetail.tsx, whose
\* save rewrites the items it updates by deleting and inserting them
NextReinsert ==
  \/ AuthResolved(Owner)
  \/ Mount(Owner)
  \/ FetchDone(Owner)
  \/ handleEditToggle(Owner)
  \/ \E i \in 1..MaxDbId, v \in AmountInputs \cup {ClearedInput} : handleEditedAmountChange(Owner, i, v)
  \/ \E i \in 1..MaxDbId : removeEditedExpense(Owner, i)
  \/ SaveStart(Owner)
  \/ SaveDelete(Owner)
  \/ SaveClearExisting(Owner)
  \/ SaveReinsert(Owner)
  \/ SaveReport(Owner)
  \/ SaveNotify(Owner)
  \/ SubmitStep

SpecReinsert == InitSingle /\ [][NextReinsert]_vars

\* the owner's edit form on a report with one stored item of 2.50
InitAmount ==
  /\ dbRole = [u \in Users |-> u # Owner]
  /\ dbStatus = "submitted"
  /\ dbTotal = ToDollars(ParseAmount(<<"$", "2", ".", "5", "0">>))
  /\ dbItems = {[id |-> 1, amount |-> dbTotal, category |-> FirstCategory,
                 description |-> NullValue, receipt_url |-> NullValue]}
  /\ nextId = 2
  /\ userLoading = [u \in Users |-> u # Owner]
  /\ isAdmin = [u \in Users |-> FALSE]
  /\ mounted = [u \in Users |-> u = Owner]
  /\ loading = [u \in Users |-> u # Owner]
  /\ report = [u \in Users |-> IF u = Owner THEN [status |-> "submitted", user_id |-> Owner]
                                             ELSE NoReport]
  /\ items = [u \in Users |-> IF u = Owner THEN FormatItems(RowsInOrder(dbItems)) ELSE <<>>]
  /\ editedItems = [u \in Users |-> EditCopy(items[u])]
  /\ isEditing = [u \in Users |-> u = Owner]
  /\ error = [u \in Users |-> "none"]
  /\ pc = [u \in Users |-> "idle"]
  /\ closure = [u \in Users |-> NoClosure]
  /\ submitPc = "form"
  /\ submitExps = <<>>
  /\ refused = NoEvent
  /\ fn = NoRequest
  /\ upload = [u \in Users |-> NoUpload]
  /\ auth = NoAuth

\* keys pressed with the cursor at the end of the input
TypedKeys == {"0", "9", "a", "-", "."}
\* the input's value after one key, or after Backspace, on the displayed text
TypedInputs(shown) ==
  {Append(shown, k) : k \in TypedKeys} \cup {SubSeq(shown, 1, Len(shown) - 1)}
\* values pasted over the whole input
PastedInputs ==
  {ClearedInput, <<"a", "b", "c">>, <<"-", "5">>, <<"1", "e", "9">>}
    \cup {[i \in 1..n |-> "9"] : n \in 1..MaxPaste}

\* the amount input of the item shows formatCurrency(item.amount); a key or a
\* paste hands the new text to handleEditedAmountChange
NextAmount ==
  \E v \in TypedInputs(formatCurrency(editedItems[Owner][1].amount)) \cup PastedInputs :
    handleEditedAmountChange(Owner, 1, v)

SpecAmount == InitAmount /\ [][NextAmount]_vars

\* the sessions of the owner and of a second user, one of the two an admin,
\* interleaved at every await; edit sessions re-price and remove items
Next ==
  \/ \E s \in Users : PageStep(s)
  \/ \E s \in Users, st \in {"approved", "rejected"} : handleUpdateStatus(s, st)
  \/ SubmitStep

Spec == Init /\ [][Next]_vars

TypeOK ==
  /\ dbStatus \in Statuses \cup {"none", "deleted"}
  /\ nextId \in 1..(MaxDbId + 1)
  /\ \A s \in Users : pc[s] \in {"idle", "del", "upd", "ins", "rep", "notify", "fetch"}

\* ---------------------------------------------------------------- properties
SaveSteps == {"del", "upd", "ins", "rep"}
\* the step in which the report update of a save returns without error
SaveSucceeds(s) == pc[s] = "rep" /\ pc'[s] \in {"notify", "fetch"}
\* the step in which the item insert of handleSubmit returns without error
SubmitSucceeds == submitPc = "items" /\ nextId' # nextId
StoredTotalIsSum == ToCents(dbTotal) = SumRows(dbItems)

\* C1: when a save or an initial submission completes successfully, the stored
\* total equals the sum of the amounts of the stored items.
C1_TotalEqualsSum ==
  [][((\E s \in Users : SaveSucceeds(s)) \/ SubmitSucceeds) => StoredTotalIsSum']_vars

\* a database step of a save made by the owner acting as a non-admin
OwnerSaveStep == pc[Owner] \in SaveSteps /\ pc'[Owner] # pc[Owner] /\ ~closure[Owner].admin

StatusDecided == dbStatus' \in {"approved", "rejected"} /\ dbStatus' # dbStatus

\* C3 (as stated): the stored status becomes approved or rejected only in an
\* admin's approve/reject step, taken when the stored status is submitted.
C3_OnlyApproveRejectFromSubmitted ==
  [][StatusDecided =>
       /\ dbStatus = "submitted"
       /\ \E s \in Users : isAdmin[s] /\ pc[s] = "idle" /\ report'[s].status = dbStatus'
                             /\ report'[s] # report[s]]_vars

\* C3 (amended): the stored status becomes approved or rejected only in a step
\* of an admin session: an approve/reject issued while the session has the
\* report loaded as submitted, or the report update of the admin's save, which
\* writes the status the session loaded.
C3_OnlyAdminFromLoaded ==
  [][StatusDecided =>
       \E s \in Users :
         /\ isAdmin[s]
         /\ \/ pc[s] = "idle" /\ report[s].status = "submitted" /\ report'[s].status = dbStatus'
            \/ pc[s] = "rep" /\ closure[s].admin /\ closure[s].report.status = dbStatus']_vars

\* an admin's save has written rejected over the resubmission that the owner's
\* save, still at its notification, had stored
C3_Witness ==
  \E s \in Users \ {Owner} :
    /\ pc[s] = "fetch" /\ closure[s].admin /\ closure[s].report.status = "rejected"
    /\ dbStatus = "rejected" /\ pc[Owner] = "notify"

\* C4 (as stated): the status stored after an admin's save equals the status
\* stored immediately before it.
C4_AdminSaveKeepsStored ==
  [][\A s \in Users : SaveSucceeds(s) /\ closure[s].admin => dbStatus' = dbStatus]_vars

\* C4 (amended): the status stored after an admin's save equals the status the
\* admin's session had loaded when the save started.
C4_AdminSaveWritesLoaded ==
  [][\A s \in Users : SaveSucceeds(s) /\ closure[s].admin =>
       dbStatus' = closure[s].report.status]_vars

\* an admin's save of an approved report has completed its report update
C4_Witness ==
  \E s \in Users :
    /\ pc[s] = "fetch" /\ closure[s].admin
    /\ closure[s].report.status = "approved" /\ dbStatus = "approved"

\* C5: every successful save made by a non-admin stores status submitted.
C5_NonAdminSaveSubmits ==
  [][\A s \in Users : SaveSucceeds(s) /\ ~closure[s].admin => dbStatus' = "submitted"]_vars

\* the owner's save of a report loaded as rejected has stored submitted
C5_Witness ==
  \E s \in Users :
    /\ pc[s] = "notify" /\ ~closure[s].admin
    /\ closure[s].report.status = "rejected" /\ dbStatus = "submitted"

\* ---- the permission table of the specification
EditPermitted(admin, owner, status) == admin \/ (owner /\ status \in {"submitted", "rejected"})
DeletePermitted(admin, owner, status) == owner /\ ~admin /\ status \in {"submitted", "rejected"}
ApprovePermitted(admin, status) == admin /\ status = "submitted"
\* the session shows a loaded report
Shown(s) == Rendered(s) /\ report[s] # NoReport
\* a handler's early return has just been taken
RefusedNow == refused' # NoEvent /\ refused' # refused
NothingChanges == UNCHANGED <<dbVars, localVars, submitVars, auxVars>>

StatusUpdated(s) == ViewMode(s) /\ report'[s] # report[s] /\ report'[s] # NoReport

\* C8: with a report loaded, approve and reject are offered exactly to an admin
\* for a report loaded as submitted; a status is set only then, and in every
\* other case the call returns early and changes nothing.
C8_ApprovePermission ==
  /\ [](\A s \in Users :
          Shown(s) => (canApproveReject(s) <=> ApprovePermitted(isAdmin[s], report[s].status)))
  /\ [][\A s \in Users :
          /\ StatusUpdated(s) => ApprovePermitted(isAdmin[s], report[s].status)
          /\ RefusedNow /\ refused' = Refusal(s, "updateStatus") =>
               ~ApprovePermitted(isAdmin[s], report[s].status) /\ NothingChanges]_vars

\* an admin's approve or reject of an approved report has returned early
C8_Witness ==
  \E s \in Users :
    refused = Refusal(s, "updateStatus") /\ isAdmin[s] /\ report[s].status = "approved"

DisallowedOps == {"saveStart", "deleteReport", "updateStatus"}

Quiescent == submitPc = "form" /\ \A s \in Users : pc[s] = "idle"

\* C11 (as stated): whenever no submission and no save is running, a stored
\* report has at least one stored item, also after one of them failed part-way.
C11_StoredReportHasItem == Quiescent /\ ReportExists => dbItems # {}

\* C11 (amended): when an initial submission or a save completes successfully,
\* with no other session writing to the report meanwhile, the stored report has
\* at least one stored item.
C11_CompletedLeavesItem ==
  [][((\E s \in Users : SaveSucceeds(s)) \/ SubmitSucceeds) => dbItems' # {}]_vars

\* a save that deleted a stored item has completed its report update and an item is left
C11_Witness ==
  /\ pc[Owner] = "notify" /\ itemsToDelete(closure[Owner].items) # <<>>
  /\ dbItems # {}

\* the three operation sets of a save of list l share no item and no row id
ClassesDisjoint(l) ==
  /\ \A i \in 1..Len(l) :
        /\ ~(IsToDelete(l[i]) /\ IsToUpdate(l[i]))
        /\ ~(IsToDelete(l[i]) /\ IsToInsert(l[i]))
        /\ ~(IsToUpdate(l[i]) /\ IsToInsert(l[i]))
  /\ DbIds(itemsToDelete(l)) \cap DbIds(itemsToUpdate(l)) = {}
  /\ DbIds(itemsToInsert(l)) \cap (DbIds(itemsToDelete(l)) \cup DbIds(itemsToUpdate(l))) = {}
  /\ Len(itemsToDelete(l)) + Len(itemsToUpdate(l)) + Len(itemsToInsert(l)) <= Len(l)

\* C12: for every edited item list, and every list a save is working on, the
\* items the save deletes (deleted flag and a stored id), the items it updates
\* (neither flag and a stored id) and the items it inserts (new and not deleted)
\* are pairwise disjoint, as items and as row ids.
C12_ClassesDisjoint ==
  \A s \in Users : ClassesDisjoint(editedItems[s]) /\ ClassesDisjoint(closure[s].items)

\* a save is working on a list with an item to delete, one to update and one to insert
C12_Witness ==
  /\ pc[Owner] = "del"
  /\ itemsToDelete(closure[Owner].items) # <<>>
  /\ itemsToUpdate(closure[Owner].items) # <<>>
  /\ itemsToInsert(closure[Owner].items) # <<>>

\* the item is in none of the three operation sets and not in the total
InNoOperation(it) ==
  /\ ~IsToDelete(it) /\ ~IsToUpdate(it) /\ ~IsToInsert(it)
  /\ ~IsFinal(it)

\* adding an item to l, typing amount a into it and removing it gives l back
AddThenRemoveRestores(l, a) ==
  LET n == Len(l) + 1
      typed == [AddedList(l) EXCEPT ![n].amount = a]
  IN /\ RemovedList(AddedList(l), n) = l
     /\ RemovedList(typed, n) = l

\* C13: in every edit session, adding an item and removing it before saving
\* leaves the edited list as it was before the add, so a following save has no
\* insert, delete or update for it and its total does not count it; no edited
\* list holds an item that is both new and deleted, and such an item would be
\* in none of the three operation sets nor in the total.
C13_AddThenRemove ==
  /\ \A s \in Users :
        /\ \A a \in SubmitAmounts \cup {0} : AddThenRemoveRestores(editedItems[s], a)
        /\ \A i \in 1..Len(editedItems[s]) :
              ~(editedItems[s][i].isNew /\ editedItems[s][i].isDeleted)
        /\ \A i \in 1..Len(closure[s].items) :
              ~(closure[s].items[i].isNew /\ closure[s].items[i].isDeleted)
  /\ \A a \in SubmitAmounts \cup {0} :
        InNoOperation([db_id |-> 0, amount |-> a, category |-> FirstCategory, description |-> "",
                       receipt_url |-> Undefined, receipt |-> Undefined,
                       isNew |-> TRUE, isDeleted |-> TRUE])

\* an edit session holds a new item with an amount typed in, next to a stored
\* item that was removed: the new item's remove button is there to press
C13_Witness ==
  /\ EditMode(Owner) /\ pc[Owner] = "idle"
  /\ \E i, j \in 1..Len(editedItems[Owner]) :
        /\ editedItems[Owner][i].isNew /\ editedItems[Owner][i].amount # 0
        /\ editedItems[Owner][j].isDeleted

\* C14: the total a save writes to the report is the sum of the amounts of the
\* items it updates plus the sum of the amounts of the items it inserts, so it
\* counts no item the save deletes.
C14_TotalOfUpdatesAndInserts ==
  [][\A s \in Users :
       SaveSucceeds(s) =>
         ToCents(dbTotal') = SumAmounts(itemsToUpdate(closure[s].items))
                             + SumAmounts(itemsToInsert(closure[s].items))]_vars

\* a save that deleted an item with a non-zero amount, updated one and inserted
\* one has written its total
C14_Witness ==
  /\ pc[Owner] = "notify"
  /\ \E i \in 1..Len(closure[Owner].items) :
        IsToDelete(closure[Owner].items[i]) /\ closure[Owner].items[i].amount # 0
  /\ itemsToUpdate(closure[Owner].items) # <<>>
  /\ itemsToInsert(closure[Owner].items) # <<>>
  /\ ToCents(dbTotal) = SumAmounts(finalItems(closure[Owner].items))

\* the order of the calls of one save
StepRank(p) ==
  CASE p = "idle" -> 0 [] p = "del" -> 1 [] p = "upd" -> 2 [] p = "ins" -> 3
    [] p = "rep" -> 4 [] p = "notify" -> 5 [] p = "fetch" -> 6

\* the save working on list l has a call to make at step p
HasCall(l, p) ==
  CASE p = "del" -> \E i \in 1..Len(l) : l[i].isDeleted /\ l[i].db_id # 0
    [] p = "upd" -> \E i \in 1..Len(l) : ~l[i].isNew /\ ~l[i].isDeleted /\ l[i].db_id # 0
    [] p = "ins" -> \E i \in 1..Len(l) : l[i].isNew /\ ~l[i].isDeleted
    [] OTHER -> TRUE

\* from step p the save moves to q: the next step in the order that has a call
\* to make (the notification is optional, the refresh ends the save)
IssuedInOrder(l, p, q) ==
  /\ StepRank(q) > StepRank(p)
  /\ HasCall(l, q)
  /\ \A r \in SaveSteps : StepRank(p) < StepRank(r) /\ StepRank(r) < StepRank(q) => ~HasCall(l, r)
  /\ q = "fetch" => p \in {"rep", "notify"}

\* C15: one save issues its calls in the order item deletes, item updates, item
\* inserts, report update, notification; it moves to a step only from an earlier
\* step that returned successfully, passing over only steps with nothing to do,
\* and a step that fails ends the save with no later call issued.
C15_StepsInOrder ==
  [][\A s \in Users :
       /\ (pc[s] = "idle" /\ pc'[s] # "idle") =>
             IssuedInOrder(closure'[s].items, "idle", pc'[s]) /\ pc'[s] \in SaveSteps
       /\ (pc[s] \in SaveSteps \cup {"notify"} /\ pc'[s] # pc[s]) =>
             \/ IssuedInOrder(closure[s].items, pc[s], pc'[s]) /\ closure'[s].items = closure[s].items
             \/ /\ pc[s] \in SaveSteps /\ pc'[s] = "idle" /\ error'[s] = "save"
                /\ UNCHANGED dbVars
       /\ (pc[s] \in SaveSteps \cup {"notify"} /\ pc'[s] = pc[s]) =>
             closure'[s].items = closure[s].items
       /\ pc[s] = "fetch" => pc'[s] \in {"fetch", "idle"}]_vars

\* a save whose deletes and updates have returned is at its inserts
C15_Witness ==
  /\ pc[Owner] = "ins"
  /\ itemsToDelete(closure[Owner].items) # <<>>
  /\ itemsToUpdate(closure[Owner].items) # <<>>
  /\ \A r \in dbItems : r.id \notin DbIds(itemsToDelete(closure[Owner].items))

NotifyFailures == {"notOk", "networkError", "noSession"}

\* C17: when the notification of a save fails (non-OK response, network error
\* or missing session) nothing the save stored changes, the save is not reported
\* as failed, and it goes on to refresh the report; when the refresh returns the
\* page has left edit mode and shows no save failure.
C17_NotifyFailureNotFatal ==
  [][\A s \in Users :
       /\ pc[s] = "notify" /\ pc'[s] # "notify" =>
             /\ pc'[s] = "fetch" /\ loading'[s]
             /\ closure'[s].notified \in NotifyOutcomes
             /\ error'[s] # "save"
             /\ UNCHANGED dbVars
       /\ pc[s] = "fetch" /\ closure[s].notified \in NotifyFailures /\ pc'[s] # "fetch" =>
             /\ pc'[s] = "idle" /\ ~isEditing'[s] /\ ~loading'[s]
             /\ error'[s] # "save"
             /\ UNCHANGED dbVars]_vars

\* the refresh of a save is running after the notification call met a network error
C17_Witness ==
  /\ pc[Owner] = "fetch" /\ closure[Owner].notified = "networkError"
  /\ isEditing[Owner] /\ dbStatus = "submitted" /\ error[Owner] = "none"

\* C18: when the notification of an otherwise successful save failed, the
\* warning is in the page's error state once the save has completed, that is
\* when its refresh has returned and edit mode is left.
C18_WarningRemains ==
  [][\A s \in Users :
       pc[s] = "fetch" /\ closure[s].notified \in NotifyFailures /\ pc'[s] = "idle" =>
         error'[s] = "warning"]_vars

\* a persistence step of the save of session s fails
SaveStepFails(s) == pc[s] \in SaveSteps /\ pc'[s] = "idle"

\* C19 (as stated): when a persistence step of a save fails, the save is
\* reported as failed, the page stays in edit mode, and the edited list is
\* exactly the list the save was started with.
C19_AttemptedListRetained ==
  [][\A s \in Users :
       SaveStepFails(s) =>
         /\ error'[s] = "save" /\ isEditing'[s]
         /\ editedItems'[s] = closure[s].items]_vars

\* C19 (amended): when a persistence step of a save fails, the save is reported
\* as failed, the page stays in edit mode, and the failure leaves the edited list
\* as it is at that moment, so no edit made before or during the save is
\* discarded; it is the list the save was started with when nothing was edited
\* while the save was running.
C19_EditsRetained ==
  [][\A s \in Users :
       SaveStepFails(s) =>
         /\ error'[s] = "save" /\ isEditing'[s] /\ ~loading'[s]
         /\ editedItems'[s] = editedItems[s]
         /\ editedItems[s] = closure[s].items => editedItems'[s] = closure[s].items]_vars

\* a save has failed and the form shows the failure with an amount that was
\* typed while the save was running
C19_Witness ==
  /\ EditMode(Owner) /\ pc[Owner] = "idle" /\ error[Owner] = "save"
  /\ \E i \in 1..Len(editedItems[Owner]) :
        /\ ~editedItems[Owner][i].isDeleted
        /\ \A r \in dbItems : r.id = editedItems[Owner][i].db_id =>
              ToCents(r.amount) # editedItems[Owner][i].amount
  /\ \E i \in 1..Len(editedItems[Owner]) : editedItems[Owner][i].isDeleted

\* the digit string with its leading zeros removed
RECURSIVE Significant(_)
Significant(d) == IF d # <<>> /\ Head(d) = "0" THEN Significant(Tail(d)) ELSE d

\* the digits of MAX_CENTS
MaxCentsDigits == NatDigits(MAX_CENTS)

\* the digit string d denotes a number above MAX_CENTS: it is longer than the
\* digits of MAX_CENTS, or of the same length and not MAX_CENTS itself (whose
\* digits are a 1 followed by zeros, the least number of that length)
DenotesAboveMax(d) ==
  \/ Len(Significant(d)) > Len(MaxCentsDigits)
  \/ Len(Significant(d)) = Len(MaxCentsDigits) /\ Significant(d) # MaxCentsDigits

\* the text the amount input can hand to its handler from the shown amount
AmountTexts == TypedInputs(formatCurrency(editedItems[Owner][1].amount)) \cup PastedInputs

\* C20: for every text the amount input hands to its change handler, the amount
\* stored is an integer from 0 to 100000000 cents, and it is exactly 100000000
\* whenever the digits of the text denote a number above 100000000; the
\* amounts held by the edit form and by a submission stay in that range.
C20_AmountClamped ==
  /\ \A s \in Users : \A i \in 1..Len(editedItems[s]) :
        editedItems[s][i].amount \in 0..MAX_CENTS
  /\ \A a \in SubmitAmounts : a \in 0..MAX_CENTS
  /\ \A v \in AmountTexts :
        /\ ParseAmount(v) \in 0..MAX_CENTS
        /\ DenotesAboveMax(digitsOnly(v)) => ParseAmount(v) = MAX_CENTS
        /\ ~DenotesAboveMax(digitsOnly(v)) =>
              NatDigits(ParseAmount(v)) = (IF Significant(digitsOnly(v)) = <<>> THEN <<"0">>
                                           ELSE Significant(digitsOnly(v)))

\* digits typed one after the other have taken the amount to the limit, and one
\* more digit would denote a number above it
C20_Witness ==
  /\ editedItems[Owner][1].amount = MAX_CENTS
  /\ DenotesAboveMax(digitsOnly(Append(formatCurrency(editedItems[Owner][1].amount), "9")))

\* C21: parsing what format renders of a parsed amount gives the parsed amount
\* again: for every text the amount input hands over, and for the amount the
\* form holds, parse(format(parse(text))) = parse(text), where parse strips the
\* non-digits, reads the digits as cents and clamps, and format renders cents
\* as a US currency string with two fractional digits.
C21_ParseFormatIdempotent ==
  /\ \A v \in AmountTexts :
        ParseAmount(formatCurrency(ParseAmount(v))) = ParseAmount(v)
  /\ \A s \in Users : \A i \in 1..Len(editedItems[s]) :
        ParseAmount(formatCurrency(editedItems[s][i].amount)) = editedItems[s][i].amount
  /\ \A a \in SubmitAmounts : ParseAmount(formatCurrency(a)) = a

\* the form holds an amount rendered with a thousands separator and with a
\* leading zero in its cents
C21_Witness ==
  /\ editedItems[Owner][1].amount \div 100 >= 1000
  /\ editedItems[Owner][1].amount % 100 \in 1..9
  /\ editedItems[Owner][1].amount < MAX_CENTS
  /\ \E j \in 1..Len(formatCurrency(editedItems[Owner][1].amount)) :
        formatCurrency(editedItems[Owner][1].amount)[j] = ","

\* the rows a step writes: those of dbItems' that dbItems does not hold as they are
RowsWritten == dbItems' \ dbItems

\* C22: every item row written by an initial submission, by the update step of
\* a save or by the insert step of a save has a null description unless its
\* category is Other, whatever description the item it is written from carries.
C22_DescriptionOnlyForOther ==
  /\ [][\A r \in RowsWritten : r.category # Other => r.description = NullValue]_vars
  /\ [](\A d \in Descriptions, id \in 1..MaxDbId :
          PayloadRow([amount |-> 0, category |-> FirstCategory, description |-> d,
                      receipt_url |-> Undefined], id).description = NullValue)

\* a stored item was described under Other, its category was changed in an
\* edit session, and the update step of the save has rewritten its row with a
\* null description, while the insert step has a new item to write
C22_Witness ==
  /\ pc[Owner] = "ins"
  /\ \E i \in 1..Len(closure[Owner].items) :
        /\ IsToUpdate(closure[Owner].items[i])
        /\ closure[Owner].items[i].category # Other
        /\ closure[Owner].items[i].description = ""
        /\ items[Owner][i].category = Other /\ items[Owner][i].description = "taxi"
        /\ \E r \in dbItems : r.id = closure[Owner].items[i].db_id /\ r.description = NullValue

\* C23: a save keeps the stored id of every item it updates: when the save has
\* written the report, each item it updated is stored under the id it had when
\* the save started.
C23_UpdateKeepsId ==
  [][\A s \in Users :
       SaveSucceeds(s) =>
         DbIds(itemsToUpdate(closure[s].items)) \subseteq {r.id : r \in dbItems'}]_vars

C25_SaveEnds == \A s \in Users : (pc[s] # "idle") ~> (pc[s] = "idle")

\* a save has failed after its insert, the flag is reset and the Save Changes
\* button can be pressed again
C25_Witness ==
  /\ pc[Owner] = "idle" /\ error[Owner] = "save" /\ closure[Owner] = NoClosure
  /\ EditMode(Owner) /\ canEdit(Owner)
  /\ itemsToInsert(editedItems[Owner]) # <<>>
  /\ nextId > Len(editedItems[Owner])

\* ---------------------------------------------------------------- send-expense-email
MAX_RETRIES == 3

\* the outcomes of the three calls the function awaits
ExpenseOutcomes == {"found", "none", "error"}
RoleOutcomes == {"email", "none", "error"}
Methods == {"OPTIONS", "POST"}

\* Deno.serve: a request arrives; the function answers at once or starts the lookup
Serve(method, env, parses, expenseId) ==
  /\ fn.pc \in {"idle", "done"}
  /\ fn' = IF method = "OPTIONS" THEN [NoRequest EXCEPT !.pc = "done", !.status = 200]
           ELSE IF ~env \/ ~parses THEN [NoRequest EXCEPT !.pc = "done", !.status = 500]
           ELSE IF expenseId = 0 THEN [NoRequest EXCEPT !.pc = "done", !.status = 400]
           ELSE [NoRequest EXCEPT !.pc = "lookup", !.expenseId = expenseId]
  /\ UNCHANGED <<dbVars, localVars, submitVars, refused, upload, auth>>

RetriesRemain_OneMore(retries) == retries < MAX_RETRIES
RetriesRemain(retries) == retries < MAX_RETRIES - 1

\* findExpenseAndUserWithRetry: what follows the answer to the expenses query
AfterAttempt_RetriesErrors(out, retries) ==
  IF out = "found" THEN "found"
  ELSE IF RetriesRemain(retries) THEN "delay"
  ELSE IF out = "error" THEN "throw" ELSE "null"
AfterAttempt(out, retries) ==
  IF out = "error" THEN "throw"
  ELSE IF out = "found" THEN "found"
  ELSE IF RetriesRemain(retries) THEN "delay" ELSE "null"

\* findExpenseAndUserWithRetry: the expenses query of one attempt returns
LookupExpense(out, hasUser) ==
  /\ fn.pc = "lookup"
  /\ LET asked == [fn EXCEPT !.attempts = Append(@, out)]
         then == AfterAttempt(out, fn.retries)
     IN fn' = CASE then = "throw" -> [asked EXCEPT !.pc = "done", !.status = 400]
                [] then = "found" /\ hasUser -> [asked EXCEPT !.pc = "role"]
                [] then = "found" /\ ~hasUser -> [asked EXCEPT !.pc = "send", !.role = "nouser"]
                [] then = "delay" -> [asked EXCEPT !.pc = "delay"]
                [] OTHER -> [asked EXCEPT !.pc = "done", !.status = 404]
  /\ UNCHANGED <<dbVars, localVars, submitVars, refused, upload, auth>>

\* findExpenseAndUserWithRetry: the delay ends and the function calls itself
RetryDelay ==
  /\ fn.pc = "delay"
  /\ fn' = [fn EXCEPT !.pc = "lookup", !.retries = @ + 1]
  /\ UNCHANGED <<dbVars, localVars, submitVars, refused, upload, auth>>

\* findExpenseAndUserWithRetry: the user_roles query returns
LookupRole(out) ==
  /\ fn.pc = "role"
  /\ fn' = [fn EXCEPT !.pc = "send", !.role = out,
                      !.userEmail = IF out = "email" THEN "email" ELSE "null"]
  /\ UNCHANGED <<dbVars, localVars, submitVars, refused, upload, auth>>

\* Deno.serve: the request to the mail service returns
SendEmail(ok) ==
  /\ fn.pc = "send"
  /\ fn' = [fn EXCEPT !.pc = "done", !.sent = @ + 1, !.status = IF ok THEN 200 ELSE 500]
  /\ UNCHANGED <<dbVars, localVars, submitVars, refused, upload, auth>>

FnStep ==
  \/ \E out \in ExpenseOutcomes, hasUser \in BOOLEAN : LookupExpense(out, hasUser)
  \/ RetryDelay
  \/ \E out \in RoleOutcomes : LookupRole(out)
  \/ \E ok \in BOOLEAN : SendEmail(ok)

NextNotifyFn ==
  \/ \E method \in Methods, env \in BOOLEAN, parses \in BOOLEAN, expenseId \in 0..MaxDbId :
       Serve(method, env, parses, expenseId)
  \/ \E out \in ExpenseOutcomes, hasUser \in BOOLEAN : LookupExpense(out, hasUser)
  \/ RetryDelay
  \/ \E out \in RoleOutcomes : LookupRole(out)
  \/ \E ok \in BOOLEAN : SendEmail(ok)

SpecNotifyFn == Init /\ [][NextNotifyFn]_vars

\* every call the function awaits returns and its timer fires
FnCallsReturn == WF_vars(FnStep)
SpecNotifyFnLive == SpecNotifyFn /\ FnCallsReturn

FnTypeOK ==
  /\ fn.pc \in {"idle", "lookup", "delay", "role", "send", "done"}
  /\ fn.expenseId \in 0..MaxDbId
  /\ fn.retries \in 0..MAX_RETRIES
  /\ fn.sent \in 0..1
  /\ fn.status \in {0, 200, 400, 404, 500}

AllNone(log) == \A i \in 1..Len(log) : log[i] = "none"
Front(log) == SubSeq(log, 1, Len(log) - 1)

\* the lookup of the request made at most MAX_RETRIES attempts, every attempt
\* but the last found no row, and not-found is answered exactly after
\* MAX_RETRIES attempts that found no row
LookupBounded ==
  /\ Len(fn.attempts) <= MAX_RETRIES
  /\ AllNone(Front(fn.attempts))
  /\ fn.pc = "lookup" => Len(fn.attempts) = fn.retries
  /\ fn.status = 404 <=>
       fn.pc = "done" /\ Len(fn.attempts) = MAX_RETRIES /\ AllNone(fn.attempts)

\* C26: the lookup makes at most MAX_RETRIES attempts, retries only after an
\* attempt that found no row, stops at the first attempt that finds the
\* expense, answers 404 exactly when MAX_RETRIES attempts found nothing, and a
\* request that started its lookup is answered.
C26_LookupBoundedAndEnds ==
  /\ []LookupBounded
  /\ (fn.pc = "lookup") ~> (fn.pc = "done")

\* three attempts found no row and the request was answered 404
C26_Witness ==
  /\ fn.pc = "done" /\ fn.status = 404
  /\ fn.attempts = <<"none", "none", "none">>
  /\ fn.retries = MAX_RETRIES - 1

\* C27: a database error of a lookup attempt ends the request at once, with
\* no further attempt and no email; the email is sent only after an attempt
\* found the expense, so never for a missing expenseId, a not-found result or
\* a lookup error.
C27_ErrorPropagatesNoEmail ==
  /\ \A i \in 1..Len(fn.attempts) :
       fn.attempts[i] = "error" =>
         /\ i = Len(fn.attempts)
         /\ fn.pc = "done" /\ fn.sent = 0 /\ fn.status \in {400, 500}
  /\ fn.pc = "send" \/ fn.sent > 0 =>
       /\ fn.expenseId # 0
       /\ fn.attempts # <<>> /\ fn.attempts[Len(fn.attempts)] = "found"
  /\ fn.status \in {400, 404} => fn.sent = 0

\* the second attempt of a lookup met a database error and the request ended
C27_Witness ==
  /\ fn.pc = "done" /\ fn.attempts = <<"none", "error">>
  /\ fn.sent = 0 /\ fn.status = 400

\* what a stored row holds besides its id
RowContent(r) == [amount |-> r.amount, category |-> r.category,
                  description |-> r.description, receipt_url |-> r.receipt_url]
\* the rows of S hold exactly the items of list l, each item once
StoredExactly(S, l) ==
  /\ Cardinality(S) = Len(l)
  /\ \A i \in 1..Len(l) :
       Cardinality({r \in S : RowContent(r) = RowContent(PayloadRow(l[i], 0))})
         = Cardinality({j \in 1..Len(l) : RowContent(PayloadRow(l[j], 0)) = RowContent(PayloadRow(l[i], 0))})

\* C28: when a save succeeds, the retry of a save that failed at its report
\* update after its inserts included, the stored items are exactly the
\* non-deleted items of the saved list, no item twice, and the stored total is
\* the sum of the stored items.
C28_RetryStoresEachItemOnce ==
  [][SaveSucceeds(Owner) =>
       /\ StoredExactly(dbItems', finalItems(closure[Owner].items))
       /\ StoredTotalIsSum']_vars

\* ---------------------------------------------------------------- ReportDetail: handleEditedFileChange
PublicUrl == "url"
ChosenFile == "file"

\* items.find(i => i.id === id)?.receipt_url, for the edited item it
OriginalUrl(its, it) ==
  IF \E k \in 1..Len(its) : its[k].db_id = it.db_id
  THEN (its[CHOOSE k \in 1..Len(its) : its[k].db_id = it.db_id]).receipt_url
  ELSE Undefined

\* handleEditedFileChange up to its await: the file is shown on the item and
\* the upload is started; the handler keeps the list it was created with
UploadStart(s, i) ==
  /\ EditMode(s) /\ pc[s] = "idle"
  /\ upload[s] = NoUpload
  /\ i \in 1..Len(editedItems[s]) /\ ~editedItems[s][i].isDeleted
  /\ upload' = [upload EXCEPT ![s] = [index |-> i, items |-> editedItems[s],
                                      original |-> OriginalUrl(items[s], editedItems[s][i])]]
  /\ editedItems' = [editedItems EXCEPT ![s][i].receipt = ChosenFile]
  /\ refused' = NoEvent
  /\ UNCHANGED <<dbVars, userLoading, isAdmin, mounted, loading, report, items, isEditing, error, pc, closure, submitVars, fn, auth>>

\* updateEditedExpense(id, { receipt_url: publicUrl, receipt: file }) of the
\* handler: setEditedItems(editedItems.map(...)) on the list of the handler
UploadedList(u) ==
  [u.items EXCEPT ![u.index].receipt_url = PublicUrl, ![u.index].receipt = ChosenFile]
\* updateEditedExpense(id, { receipt: undefined, receipt_url: items.find(...)?.receipt_url })
RevertedList(u) ==
  [u.items EXCEPT ![u.index].receipt_url = u.original, ![u.index].receipt = Undefined]

\* handleEditedFileChange after its await: the upload returns
UploadDone(s) ==
  /\ upload[s] # NoUpload
  /\ mounted[s]
  /\ \E ok \in BOOLEAN :
       IF ok
       THEN /\ editedItems' = [editedItems EXCEPT ![s] = UploadedList(upload[s])]
            /\ error' = error
       ELSE /\ editedItems' = [editedItems EXCEPT ![s] = RevertedList(upload[s])]
            /\ error' = [error EXCEPT ![s] = "upload"]
  /\ upload' = [upload EXCEPT ![s] = NoUpload]
  /\ refused' = NoEvent
  /\ UNCHANGED <<dbVars, userLoading, isAdmin, mounted, loading, report, items, isEditing, pc, closure, submitVars, fn, auth>>

\* one session in edit mode on its stored report: the inputs of the edit
\* form and the receipt input, no save and no navigation
NextUpload ==
  \/ addEditedExpense(Owner)
  \/ \E i \in 1..MaxDbId, v \in AmountInputs : handleEditedAmountChange(Owner, i, v)
  \/ \E i \in 1..MaxDbId, c \in {FirstCategory, Other} : updateEditedCategory(Owner, i, c)
  \/ \E i \in 1..MaxDbId : removeEditedExpense(Owner, i)
  \/ \E i \in 1..MaxDbId : UploadStart(Owner, i)
  \/ UploadDone(Owner)

SpecUpload == InitAmount /\ [][NextUpload]_vars

UploadCompletes(s) == upload[s] # NoUpload /\ upload'[s] = NoUpload
WithoutReceipt(it) == [it EXCEPT !.receipt_url = Undefined, !.receipt = Undefined]

\* C29: the completion of a receipt upload keeps the edits made while it was
\* in flight: the list has the items it had, every item keeps its amount,
\* category, description and flags, and at most the uploaded item changes.
C29_UploadKeepsEdits ==
  [][\A s \in Users :
       UploadCompletes(s) =>
         /\ Len(editedItems'[s]) = Len(editedItems[s])
         /\ \A j \in 1..Len(editedItems[s]) :
              WithoutReceipt(editedItems'[s][j]) = WithoutReceipt(editedItems[s][j])
         /\ Cardinality({j \in 1..Len(editedItems[s]) : editedItems'[s][j] # editedItems[s][j]}) <= 1]_vars

\* ---------------------------------------------------------------- UserProvider: auth events
\* session?.user ?? null
SessionUsers == Users \cup {"null"}

\* fetchUserAndAdminStatus(currentUser) up to its await, or to its end when
\* there is no user; a is the state of the provider
fetchUserAndAdminStatus(a, currentUser) ==
  IF currentUser # "null"
  THEN [a EXCEPT !.user = currentUser, !.lookups[currentUser] = @ + 1]
  ELSE [a EXCEPT !.user = currentUser, !.isAdmin = FALSE, !.loading = FALSE]

\* supabase.auth.getSession().then(...), once after mount
GetSession(u) ==
  /\ ~auth.started
  /\ u # "null" => auth.lookups[u] < MaxLookups
  /\ auth' = fetchUserAndAdminStatus([auth EXCEPT !.started = TRUE], u)
  /\ UNCHANGED <<dbVars, localVars, submitVars, refused, fn, upload>>

\* the onAuthStateChange callback: setLoading(true), then fetchUserAndAdminStatus
AuthStateChange(u) ==
  /\ u # "null" => auth.lookups[u] < MaxLookups
  /\ auth' = fetchUserAndAdminStatus([auth EXCEPT !.loading = TRUE], u)
  /\ UNCHANGED <<dbVars, localVars, submitVars, refused, fn, upload>>

\* fetchUserAndAdminStatus after its await: the is_admin call made with the
\* session of u returns, with data or with an error
LookupReturns(u, ok) ==
  /\ auth.lookups[u] > 0
  /\ auth' = [auth EXCEPT !.isAdmin = ok /\ dbRole[u], !.loading = FALSE,
                          !.lookups[u] = @ - 1]
  /\ UNCHANGED <<dbVars, localVars, submitVars, refused, fn, upload>>

NextAuth ==
  \/ \E u \in SessionUsers : GetSession(u)
  \/ \E u \in SessionUsers : AuthStateChange(u)
  \/ \E u \in Users, ok \in BOOLEAN : LookupReturns(u, ok)

SpecAuth == Init /\ [][NextAuth]_vars

\* C30: when the provider is not loading, isAdmin is true only if a user is
\* signed in and the is_admin lookup of that user returns true; isAdmin is
\* never true with no signed-in user.
C30_AdminOnlyForCurrentUser ==
  /\ ~auth.loading /\ auth.isAdmin => auth.user # "null" /\ dbRole[auth.user]
  /\ auth.user = "null" => ~auth.isAdmin

====
